---- MODULE Spec2Model ----
(***************************************************************************)
(* A model of the toytcp connection engine (src/src/tcp.rs): the socket    *)
(* table, the single-slot event channel, the receive dispatcher with its   *)
(* state handlers, the retransmission timer and the blocking API calls.    *)
(* Every host runs one engine; segments travel through an unreliable       *)
(* network (loss, reordering, duplication by retransmission).              *)
(***************************************************************************)
EXTENDS Integers, Sequences, FiniteSets, TLC

(***************************************************************************)
(* Program constants (scaled down where the value only sets a size).       *)
(***************************************************************************)
UNDETERMINED_IP_ADDR == 0
UNDETERMINED_PORT == 0
MAX_TRANSMITTION == 2
MSS == 2
PortLo == 40000
\* size of the receive buffer of a socket (socket record, fixed capacity)
Capacity == 3

(***************************************************************************)
(* Bounds of the model.                                                    *)
(***************************************************************************)
\* number of ephemeral ports in PORT_RANGE
NPorts == 2
\* segments the network may lose
MaxLoss == 1
\* times the retransmission timeout may run out
MaxElapse == 1

PORT_RANGE == PortLo .. (PortLo + NPorts - 1)
ServerPort == 80
ClientHost == 1
ServerHost == 2
Hosts == {ClientHost, ServerHost}
\* initial sequence numbers drawn by rand::thread_rng().gen_range(1..1 << 31)
IssOf(h) == IF h = ClientHost THEN {10} ELSE {20}

\* Option::None of a SockID, of an event, of a socket
NoSockID == <<0, 0, 0, 0>>
NoEvent == [sock_id |-> NoSockID, kind |-> "None"]

Min(a, b) == IF a < b THEN a ELSE b
Max(a, b) == IF a > b THEN a ELSE b

(***************************************************************************)
(* Socket identity and the socket record.                                  *)
(***************************************************************************)
SockID(local_addr, remote_addr, local_port, remote_port) ==
    <<local_addr, remote_addr, local_port, remote_port>>

Zeros(n) == [i \in 1..n |-> 0]

\* Socket::new: the fields of a fresh socket
NewSocket(status) ==
    [ status |-> status,
      send_param |-> [initial_seq |-> 0, unacked_seq |-> 0, next |-> 0,
                      window |-> Capacity],
      recv_param |-> [initial_seq |-> 0, next |-> 0, window |-> Capacity,
                      tail |-> 0],
      recv_buffer |-> Zeros(Capacity),
      retransmission_queue |-> <<>>,
      connection_established_queue |-> <<>>,
      listening_socket |-> NoSockID,
      uid |-> 0 ]

TCPEvent(sock_id, kind) == [sock_id |-> sock_id, kind |-> kind]

\* the segment a socket with identity id emits
TCPPacket(id, seq, ack, flag, window, payload) ==
    [ src_addr |-> id[1], dst_addr |-> id[2], src |-> id[3], dest |-> id[4],
      seq |-> seq, ack |-> ack, flag |-> flag, window |-> window,
      payload |-> payload ]

\* The result of a handler: the socket afterwards, the segments emitted, the
\* events published (in order) and whether the handler panicked.
Result(sock, out, ev, panic) ==
    [sock |-> sock, out |-> out, ev |-> ev, panic |-> panic]

\* Socket::send_tcp_packet: emit a segment advertising recv.window and keep it
\* for retransmission when it carries payload, SYN or FIN.
send_tcp_packet(s, id, seq, ack, flag, payload) ==
    LET pkt == TCPPacket(id, seq, ack, flag, s.recv_param.window, payload)
        keep == Len(payload) > 0 \/ "SYN" \in flag \/ "FIN" \in flag
        item == [packet |-> pkt, transmission_count |-> 0, expired |-> FALSE]
    IN  [ sock |-> IF keep
                   THEN [s EXCEPT !.retransmission_queue = Append(@, item)]
                   ELSE s,
          pkt |-> pkt ]

(***************************************************************************)
(* State handlers of the receive dispatcher.                               *)
(***************************************************************************)
RECURSIVE delete_acked_segment_from_retransmission_queue(_, _)
delete_acked_segment_from_retransmission_queue(s, id) ==
    IF s.retransmission_queue = <<>>
    THEN [sock |-> s, ev |-> <<>>]
    ELSE LET item == Head(s.retransmission_queue)
         IN  IF s.send_param.unacked_seq > item.packet.seq
             THEN LET s1 == [s EXCEPT
                               !.retransmission_queue = Tail(@),
                               !.send_param.window = @ + Len(item.packet.payload)]
                      r == delete_acked_segment_from_retransmission_queue(s1, id)
                  IN  [sock |-> r.sock,
                       ev |-> <<TCPEvent(id, "Acked")>> \o r.ev]
             ELSE [sock |-> s, ev |-> <<>>]

\* copy src over dst starting at (0-based) offset
CopyInto(dst, offset, src) ==
    [i \in 1..Len(dst) |->
        IF i > offset /\ i <= offset + Len(src) THEN src[i - offset] ELSE dst[i]]

\* The u32 subtraction seq - recv.next underflows for seq < recv.next, and an
\* offset beyond the buffer underflows len - offset: a debug build panics at
\* the subtraction, a release build wraps and panics at the slice bounds.
process_payload(s, id, p) ==
    LET diff == p.seq - s.recv_param.next
        offset == Capacity - s.recv_param.window + diff
    IN  IF diff < 0 \/ offset > Capacity
        THEN Result(s, <<>>, <<>>, TRUE)
        ELSE
        LET copy_size == Min(Len(p.payload), Capacity - offset)
            tail == Max(s.recv_param.tail, p.seq + copy_size)
            s1 == [s EXCEPT
                     !.recv_buffer = CopyInto(@, offset, SubSeq(p.payload, 1, copy_size)),
                     !.recv_param.tail = tail]
            s2 == IF p.seq = s.recv_param.next
                  THEN [s1 EXCEPT !.recv_param.next = tail,
                                  !.recv_param.window = @ - (tail - p.seq)]
                  ELSE s1
            sent == send_tcp_packet(s2, id, s2.send_param.next,
                                    s2.recv_param.next, {"ACK"}, <<>>)
        IN  IF copy_size > 0
            THEN Result(sent.sock, <<sent.pkt>>, <<TCPEvent(id, "DataArrived")>>, FALSE)
            ELSE Result(s2, <<>>, <<TCPEvent(id, "DataArrived")>>, FALSE)

\* the acknowledgment part shared by the ESTABLISHED and FIN-WAIT handlers:
\* stop is TRUE when the handler returns right after it
AckAdvance(s, id, p) ==
    IF s.send_param.unacked_seq < p.ack /\ p.ack <= s.send_param.next
    THEN LET r == delete_acked_segment_from_retransmission_queue(
                      [s EXCEPT !.send_param.unacked_seq = p.ack], id)
         IN  [sock |-> r.sock, ev |-> r.ev, stop |-> "ACK" \notin p.flag]
    ELSE IF s.send_param.next < p.ack
         THEN [sock |-> s, ev |-> <<>>, stop |-> TRUE]
         ELSE [sock |-> s, ev |-> <<>>, stop |-> "ACK" \notin p.flag]

\* the payload part shared by the ESTABLISHED and FIN-WAIT handlers
PayloadPart(s, id, p) ==
    IF p.payload # <<>> THEN process_payload(s, id, p)
    ELSE Result(s, <<>>, <<>>, FALSE)

EstablishedFin(s, id, p) ==
    LET s1 == [s EXCEPT !.recv_param.next = p.seq + 1]
        sent == send_tcp_packet(s1, id, s1.send_param.next, s1.recv_param.next,
                                {"ACK"}, <<>>)
    IN  Result([sent.sock EXCEPT !.status = "CloseWait"], <<sent.pkt>>,
               <<TCPEvent(id, "DataArrived")>>, FALSE)

established_handler(s, id, p) ==
    LET a == AckAdvance(s, id, p)
    IN  IF a.stop THEN Result(a.sock, <<>>, a.ev, FALSE)
        ELSE LET b == PayloadPart(a.sock, id, p)
             IN  IF b.panic THEN Result(b.sock, <<>>, a.ev, TRUE)
                 ELSE IF "FIN" \in p.flag
                 THEN LET c == EstablishedFin(b.sock, id, p)
                      IN  Result(c.sock, b.out \o c.out, a.ev \o b.ev \o c.ev, FALSE)
                 ELSE Result(b.sock, b.out, a.ev \o b.ev, FALSE)

synsent_handler(s, id, p) ==
    IF /\ "ACK" \in p.flag
       /\ s.send_param.unacked_seq <= p.ack
       /\ p.ack <= s.send_param.next
       /\ "SYN" \in p.flag
    THEN LET s1 == [s EXCEPT !.recv_param.next = p.seq + 1,
                             !.recv_param.initial_seq = p.seq,
                             !.send_param.unacked_seq = p.ack,
                             !.send_param.window = p.window]
             est == s1.send_param.unacked_seq > s1.send_param.initial_seq
             s2 == [s1 EXCEPT !.status = IF est THEN "Established" ELSE "SynRcvd"]
             sent == send_tcp_packet(s2, id, s2.send_param.next,
                                     s2.recv_param.next, {"ACK"}, <<>>)
         IN  Result(sent.sock, <<sent.pkt>>,
                    IF est THEN <<TCPEvent(id, "ConnectionCompleted")>> ELSE <<>>,
                    FALSE)
    ELSE Result(s, <<>>, <<>>, FALSE)

close_handler(s, id, p) ==
    Result([s EXCEPT !.send_param.unacked_seq = p.ack], <<>>, <<>>, FALSE)

\* a variant that leaves FIN-WAIT-2 for TIME-WAIT on the next segment
FinwaitTransitionTimeWait(s) ==
    IF s.status = "FinWait1" /\ s.send_param.next = s.send_param.unacked_seq
    THEN [s EXCEPT !.status = "FinWait2"]
    ELSE IF s.status = "FinWait2" THEN [s EXCEPT !.status = "TimeWait"]
    ELSE s

\* FIN-WAIT-1 becomes FIN-WAIT-2 once the FIN is acknowledged
FinwaitTransition(s) ==
    IF s.status = "FinWait1" /\ s.send_param.next = s.send_param.unacked_seq
    THEN [s EXCEPT !.status = "FinWait2"]
    ELSE s

FinwaitFin(s, id, p) ==
    LET s1 == [s EXCEPT !.recv_param.next = @ + 1]
        sent == send_tcp_packet(s1, id, s1.send_param.next, s1.recv_param.next,
                                {"ACK"}, <<>>)
    IN  Result(sent.sock, <<sent.pkt>>, <<TCPEvent(id, "ConnectionClosed")>>, FALSE)

finwait_handler(s, id, p) ==
    LET a == AckAdvance(s, id, p)
    IN  IF a.stop THEN Result(a.sock, <<>>, a.ev, FALSE)
        ELSE LET b == PayloadPart(a.sock, id, p)
             IN  IF b.panic THEN Result(b.sock, <<>>, a.ev, TRUE)
                 ELSE LET s1 == FinwaitTransition(b.sock)
                      IN  IF "FIN" \in p.flag
                          THEN LET c == FinwaitFin(s1, id, p)
                               IN  Result(c.sock, b.out \o c.out,
                                          a.ev \o b.ev \o c.ev, FALSE)
                          ELSE Result(s1, b.out, a.ev \o b.ev, FALSE)


(***************************************************************************)
(* The socket table: a function from the SockIDs present to their sockets. *)
(***************************************************************************)
Insert(table, id, s) == (id :> s) @@ table
Remove(table, id) == [k \in DOMAIN table \ {id} |-> table[k]]

\* The result of a handler that works on the table.
TableResult(table, out, ev, panic) ==
    [table |-> table, out |-> out, ev |-> ev, panic |-> panic]

listen_handler(table, listening_socket_id, p, remote_addr, iss, uid) ==
    IF "ACK" \in p.flag THEN TableResult(table, <<>>, <<>>, FALSE)
    ELSE IF "SYN" \in p.flag
    THEN LET id == SockID(listening_socket_id[1], remote_addr,
                          listening_socket_id[3], p.src)
             s0 == [NewSocket("SynRcvd") EXCEPT
                      !.recv_param.next = p.seq + 1,
                      !.recv_param.initial_seq = p.seq,
                      !.send_param.initial_seq = iss,
                      !.send_param.window = p.window,
                      !.uid = uid]
             sent == send_tcp_packet(s0, id, iss, s0.recv_param.next,
                                     {"SYN", "ACK"}, <<>>)
             s1 == [sent.sock EXCEPT
                      !.send_param.next = iss + 1,
                      !.send_param.unacked_seq = iss,
                      !.listening_socket = listening_socket_id]
         IN  TableResult(Insert(table, id, s1), <<sent.pkt>>, <<>>, FALSE)
    ELSE TableResult(table, <<>>, <<>>, FALSE)

\* table.get_mut(&id).unwrap() panics when the listening parent is gone
\* a variant that counts the acknowledging segment as one sequence number
SynrcvdEstablishSkip(s, p) ==
    [s EXCEPT !.recv_param.next = p.seq + 1,
              !.send_param.unacked_seq = p.ack,
              !.status = "Established"]

\* the assignments of synrcvd_handler on an acceptable ACK
SynrcvdEstablish(s, p) ==
    [s EXCEPT !.recv_param.next = p.seq,
              !.send_param.unacked_seq = p.ack,
              !.status = "Established"]

synrcvd_handler(table, sock_id, p) ==
    LET s == table[sock_id]
    IN  IF /\ "ACK" \in p.flag
           /\ s.send_param.unacked_seq <= p.ack
           /\ p.ack <= s.send_param.next
        THEN LET s1 == SynrcvdEstablish(s, p)
                 t1 == [table EXCEPT ![sock_id] = s1]
                 ls == s.listening_socket
             IN  IF ls = NoSockID THEN TableResult(t1, <<>>, <<>>, FALSE)
                 ELSE IF ls \notin DOMAIN table
                 THEN TableResult(t1, <<>>, <<>>, TRUE)
                 ELSE TableResult(
                        [t1 EXCEPT ![ls].connection_established_queue =
                                       Append(@, sock_id)],
                        <<>>, <<TCPEvent(ls, "ConnectionCompleted")>>, FALSE)
        ELSE TableResult(table, <<>>, <<>>, FALSE)

\* the handler of a socket that is neither listening nor in SYN-RCVD
SocketHandler(s, id, p) ==
    CASE s.status = "SynSent" -> synsent_handler(s, id, p)
      [] s.status = "Established" -> established_handler(s, id, p)
      [] s.status \in {"CloseWait", "LastAck"} -> close_handler(s, id, p)
      [] s.status \in {"FinWait1", "FinWait2"} -> finwait_handler(s, id, p)
      [] OTHER -> Result(s, <<>>, <<>>, FALSE)

\* the socket a segment is dispatched to: the exact 4-tuple, else the
\* listening socket of the destination, else none
Lookup(table, p) ==
    LET exact == SockID(p.dst_addr, p.src_addr, p.dest, p.src)
        wild == SockID(p.dst_addr, UNDETERMINED_IP_ADDR, p.dest, UNDETERMINED_PORT)
    IN  IF exact \in DOMAIN table THEN exact
        ELSE IF wild \in DOMAIN table THEN wild
        ELSE NoSockID

\* one turn of the loop of receive_handler on segment p
receive_handler(table, p, iss, uid) ==
    LET id == Lookup(table, p)
    IN  IF id = NoSockID THEN TableResult(table, <<>>, <<>>, FALSE)
        ELSE IF table[id].status = "Listen"
        THEN listen_handler(table, id, p, p.src_addr, iss, uid)
        ELSE IF table[id].status = "SynRcvd"
        THEN synrcvd_handler(table, id, p)
        ELSE LET r == SocketHandler(table[id], id, p)
             IN  TableResult([table EXCEPT ![id] = r.sock], r.out, r.ev, r.panic)

(***************************************************************************)
(* The retransmission timer.                                               *)
(***************************************************************************)
\* the while loop of timer over the retransmission queue of one socket
RECURSIVE TimerSocket(_, _)
TimerSocket(s, id) ==
    IF s.retransmission_queue = <<>> THEN Result(s, <<>>, <<>>, FALSE)
    ELSE
    LET item == Head(s.retransmission_queue)
        s0 == [s EXCEPT !.retransmission_queue = Tail(@)]
        closed(states) ==
            IF "FIN" \in item.packet.flag /\ s.status \in states
            THEN <<TCPEvent(id, "ConnectionClosed")>> ELSE <<>>
    IN  IF s.send_param.unacked_seq > item.packet.seq
        THEN LET r == TimerSocket(
                        [s0 EXCEPT !.send_param.window =
                                      @ + Len(item.packet.payload)], id)
             IN  Result(r.sock, r.out,
                        <<TCPEvent(id, "Acked")>> \o closed({"LastAck"}) \o r.ev,
                        FALSE)
        ELSE IF ~item.expired
        THEN Result(s, <<>>, <<>>, FALSE)
        ELSE IF item.transmission_count < MAX_TRANSMITTION
        THEN Result([s0 EXCEPT !.retransmission_queue =
                        Append(@, [item EXCEPT !.transmission_count = @ + 1,
                                               !.expired = FALSE])],
                    <<item.packet>>, <<>>, FALSE)
        ELSE LET r == TimerSocket(s0, id)
             IN  Result(r.sock, r.out,
                        closed({"LastAck", "FinWait1", "FinWait2"}) \o r.ev,
                        FALSE)

\* one pass of timer over the sockets of the table, in the order ids
RECURSIVE TimerPass(_, _)
TimerPass(table, ids) ==
    IF ids = <<>> THEN TableResult(table, <<>>, <<>>, FALSE)
    ELSE LET id == Head(ids)
             r == TimerSocket(table[id], id)
             rest == TimerPass([table EXCEPT ![id] = r.sock], Tail(ids))
         IN  TableResult(rest.table, r.out \o rest.out, r.ev \o rest.ev, FALSE)

\* the orders in which table.iter_mut() may visit the sockets
Orders(S) ==
    {f \in [1..Cardinality(S) -> S] : \A i, j \in 1..Cardinality(S) : i # j => f[i] # f[j]}


(***************************************************************************)
(* The state.                                                              *)
(***************************************************************************)
VARIABLES
    sockets,    \* per host: the socket table (TCP.sockets)
    event,      \* per host: the slot of the event channel (TCP.event_condvar)
    pending,    \* per host: events the holder of the table lock has yet to publish
    poisoned,   \* per host: a thread panicked while holding the table lock
    net,        \* the segments in flight
    thr,        \* the application threads: position, remaining calls, locals
    hist,       \* history: socket creations, completed children, accept results,
                \* sockets for which CONNECTION-CLOSED was published
    budget      \* segments the network may still lose, timeouts that may still run out

vars == <<sockets, event, pending, poisoned, net, thr, hist, budget>>

Threads == {"c1", "c2", "s1", "s2"}
HostOf(t) == IF t \in {"c1", "c2"} THEN ClientHost ELSE ServerHost

Call(op, data, len, on) == [op |-> op, data |-> data, len |-> len, on |-> on]
ListenCall == Call("listen", <<>>, 0, "lis")
AcceptCall == Call("accept", <<>>, 0, "lis")
ConnectCall == Call("connect", <<>>, 0, "conn")
SendCall(data) == Call("send", data, 0, "conn")
RecvCall(len) == Call("recv", <<>>, len, "conn")
CloseCall(on) == Call("close", <<>>, 0, on)

NewThread(prog) ==
    [ pc |-> "idle", prog |-> prog, lid |-> NoSockID, id |-> NoSockID, sock |-> NewSocket("Closed"),
      cursor |-> 0, got |-> <<>>, table_guard |-> FALSE ]

InitWith(progs, bud) ==
    /\ sockets = [h \in Hosts |-> <<>>]
    /\ event = [h \in Hosts |-> NoEvent]
    /\ pending = [h \in Hosts |-> <<>>]
    /\ poisoned = [h \in Hosts |-> FALSE]
    /\ net = {}
    /\ thr = [t \in Threads |-> NewThread(progs[t])]
    /\ hist = [made |-> <<>>, completed |-> <<>>, accepted |-> <<>>, closed |-> {}]
    /\ budget = bud

\* how many sockets were created so far under SockID id on host h
Made(h, id) == IF <<h, id>> \in DOMAIN hist.made THEN hist.made[<<h, id>>] ELSE 0
Count(made, h, id) ==
    (<<h, id>> :> (IF <<h, id>> \in DOMAIN made THEN made[<<h, id>>] ELSE 0) + 1) @@ made

\* the table lock of host h is free and usable
Unlocked(h) ==
    /\ pending[h] = <<>>
    /\ ~poisoned[h]
    /\ \A t \in Threads : HostOf(t) = h => ~thr[t].table_guard

Starts(t, op) == thr[t].pc = "idle" /\ thr[t].prog # <<>> /\ Head(thr[t].prog).op = op
At(t, op, pc) == thr[t].pc = pc /\ thr[t].prog # <<>> /\ Head(thr[t].prog).op = op
Target(t) ==
    LET on == Head(thr[t].prog).on
    IN  IF on = "lis" THEN thr[t].lid
        ELSE IF on \in Threads
        THEN \* the SockID that connect or accept returned to thread on
             IF thr[on].pc \in {"connect_insert", "connect_wait"}
             THEN NoSockID ELSE thr[on].id
        ELSE thr[t].id

\* the call returns: Ok leaves the thread ready for its next call
\* a variant that goes to wait without dropping the table guard
WaitAtHolding(th, pc) == [th EXCEPT !.pc = pc, !.table_guard = TRUE]

\* drop(table), then wait_event: the thread waits at pc without the guard
WaitAt(th, pc) == [th EXCEPT !.pc = pc, !.table_guard = FALSE]

Return(th) == [th EXCEPT !.pc = "idle", !.prog = Tail(@), !.cursor = 0, !.sock = NewSocket("Closed")]
Fail(th) == [th EXCEPT !.pc = "failed", !.cursor = 0, !.sock = NewSocket("Closed")]

(***************************************************************************)
(* The event channel.                                                      *)
(***************************************************************************)
\* publish_event by the dispatcher or the timer, which holds the table lock
Publish(h) ==
    /\ pending[h] # <<>>
    /\ event' = [event EXCEPT ![h] = Head(pending[h])]
    /\ pending' = [pending EXCEPT ![h] = Tail(@)]
    /\ UNCHANGED <<sockets, poisoned, net, thr, hist, budget>>

\* wait_event returns once the slot holds the awaited event, and clears it
wait_event(t, sock_id, kind) ==
    /\ event[HostOf(t)] = TCPEvent(sock_id, kind)
    /\ event' = [event EXCEPT ![HostOf(t)] = NoEvent]

(***************************************************************************)
(* The API calls.                                                          *)
(***************************************************************************)
Listen(t) ==
    LET h == HostOf(t)
        id == SockID(h, UNDETERMINED_IP_ADDR, ServerPort, UNDETERMINED_PORT)
        s == [NewSocket("Listen") EXCEPT !.uid = Made(h, id) + 1]
    IN  /\ Starts(t, "listen")
        /\ Unlocked(h)
        /\ sockets' = [sockets EXCEPT ![h] = Insert(@, id, s)]
        /\ hist' = [hist EXCEPT !.made = Count(@, h, id)]
        /\ thr' = [thr EXCEPT ![t] = [Return(@) EXCEPT !.lid = id]]
        /\ UNCHANGED <<event, pending, poisoned, net, budget>>

AcceptWait(t) ==
    /\ Starts(t, "accept")
    /\ wait_event(t, thr[t].lid, "ConnectionCompleted")
    /\ thr' = [thr EXCEPT ![t].pc = "accept_take"]
    /\ UNCHANGED <<sockets, pending, poisoned, net, hist, budget>>

\* a variant that takes the most recently completed connection
pop_back(q) == [item |-> q[Len(q)], rest |-> SubSeq(q, 1, Len(q) - 1)]

\* VecDeque::pop_front on a non-empty queue
pop_front(q) == [item |-> Head(q), rest |-> Tail(q)]

AcceptTake(t) ==
    LET h == HostOf(t)
        lid == thr[t].lid
    IN  /\ At(t, "accept", "accept_take")
        /\ Unlocked(h)
        /\ IF lid \in DOMAIN sockets[h]
              /\ sockets[h][lid].connection_established_queue # <<>>
           THEN LET popped == pop_front(sockets[h][lid].connection_established_queue)
                    child == popped.item
                IN  /\ sockets' = [sockets EXCEPT
                          ![h][lid].connection_established_queue = popped.rest]
                    /\ thr' = [thr EXCEPT ![t] = [Return(@) EXCEPT !.id = child]]
                    /\ hist' = [hist EXCEPT !.accepted = Append(@, <<lid, child>>)]
           ELSE /\ thr' = [thr EXCEPT ![t] = Fail(@)]
                /\ UNCHANGED <<sockets, hist>>
        /\ UNCHANGED <<event, pending, poisoned, net, budget>>

\* the ports select_unused_port may return: those no key of the table uses
UnusedPorts(table) == {port \in PORT_RANGE : \A k \in DOMAIN table : port # k[3]}

\* connect up to the insertion: port selection under the read lock, then the
\* SYN is sent from a socket that is not yet in the table
ConnectSyn(t) ==
    LET h == HostOf(t)
    IN  /\ Starts(t, "connect")
        /\ Unlocked(h)
        /\ IF UnusedPorts(sockets[h]) = {}
           THEN /\ thr' = [thr EXCEPT ![t] = Fail(@)]
                /\ UNCHANGED <<net, hist>>
           ELSE \E port \in UnusedPorts(sockets[h]), iss \in IssOf(h) :
                LET id == SockID(h, ServerHost, port, ServerPort)
                    s0 == [NewSocket("SynSent") EXCEPT
                             !.send_param.initial_seq = iss,
                             !.uid = Made(h, id) + 1]
                    sent == send_tcp_packet(s0, id, iss, 0, {"SYN"}, <<>>)
                    s1 == [sent.sock EXCEPT !.send_param.unacked_seq = iss,
                                            !.send_param.next = iss + 1]
                IN  /\ net' = net \cup {sent.pkt}
                    /\ hist' = [hist EXCEPT !.made = Count(@, h, id)]
                    /\ thr' = [thr EXCEPT ![t].pc = "connect_insert",
                                          ![t].id = id, ![t].sock = s1]
        /\ UNCHANGED <<sockets, event, pending, poisoned, budget>>

ConnectInsert(t) ==
    LET h == HostOf(t)
    IN  /\ At(t, "connect", "connect_insert")
        /\ Unlocked(h)
        /\ sockets' = [sockets EXCEPT ![h] = Insert(@, thr[t].id, thr[t].sock)]
        /\ thr' = [thr EXCEPT ![t] =
                      WaitAt([@ EXCEPT !.sock = NewSocket("Closed")], "connect_wait")]
        /\ UNCHANGED <<event, pending, poisoned, net, hist, budget>>

ConnectWake(t) ==
    /\ At(t, "connect", "connect_wait")
    /\ wait_event(t, thr[t].id, "ConnectionCompleted")
    /\ thr' = [thr EXCEPT ![t] = Return(@)]
    /\ UNCHANGED <<sockets, pending, poisoned, net, hist, budget>>

\* one turn of the loop of send under the table lock: wait when the window
\* is closed, else emit one data segment
SendStep(t) ==
    LET h == HostOf(t)
        id == thr[t].id
        data == Head(thr[t].prog).data
        cursor == thr[t].cursor
    IN  /\ Starts(t, "send") \/ At(t, "send", "send_loop")
        /\ Unlocked(h)
        /\ IF cursor >= Len(data)
           THEN /\ thr' = [thr EXCEPT ![t] = Return(@)]
                /\ UNCHANGED <<sockets, net>>
           ELSE IF id \notin DOMAIN sockets[h]
           THEN /\ thr' = [thr EXCEPT ![t] = Fail(@)]
                /\ UNCHANGED <<sockets, net>>
           ELSE LET s == sockets[h][id]
                    send_size == Min(MSS, Min(s.send_param.window, Len(data) - cursor))
                    sent == send_tcp_packet(s, id, s.send_param.next, s.recv_param.next,
                               {"ACK"}, SubSeq(data, cursor + 1, cursor + send_size))
                    s1 == [sent.sock EXCEPT !.send_param.next = @ + send_size,
                                            !.send_param.window = @ - send_size]
                IN  IF send_size = 0
                    THEN /\ thr' = [thr EXCEPT ![t] = WaitAt(@, "send_wait")]
                         /\ UNCHANGED <<sockets, net>>
                    ELSE /\ sockets' = [sockets EXCEPT ![h][id] = s1]
                         /\ net' = net \cup {sent.pkt}
                         /\ thr' = [thr EXCEPT ![t] =
                                IF cursor + send_size >= Len(data) THEN Return(@)
                                ELSE [@ EXCEPT !.pc = "send_loop",
                                               !.cursor = cursor + send_size]]
        /\ UNCHANGED <<event, pending, poisoned, hist, budget>>

SendWake(t) ==
    /\ At(t, "send", "send_wait")
    /\ wait_event(t, thr[t].id, "Acked")
    /\ thr' = [thr EXCEPT ![t].pc = "send_loop"]
    /\ UNCHANGED <<sockets, pending, poisoned, net, hist, budget>>

\* recv under the table lock: wait while nothing is buffered (unless the
\* peer has closed), else hand the front of the buffer to the caller
RecvStep(t) ==
    LET h == HostOf(t)
        id == thr[t].id
    IN  /\ Starts(t, "recv") \/ At(t, "recv", "recv_loop")
        /\ Unlocked(h)
        /\ IF id \notin DOMAIN sockets[h]
           THEN /\ thr' = [thr EXCEPT ![t] = Fail(@)]
                /\ UNCHANGED sockets
           ELSE LET s == sockets[h][id]
                    received_size == Capacity - s.recv_param.window
                    copy_size == Min(Head(thr[t].prog).len, received_size)
                    shifted == [i \in 1..Capacity |->
                                  IF i + copy_size <= Capacity
                                  THEN s.recv_buffer[i + copy_size]
                                  ELSE s.recv_buffer[i]]
                IN  IF received_size = 0
                       /\ s.status \notin {"CloseWait", "LastAck", "TimeWait"}
                    THEN /\ thr' = [thr EXCEPT ![t] = WaitAt(@, "recv_wait")]
                         /\ UNCHANGED sockets
                    ELSE /\ sockets' = [sockets EXCEPT
                               ![h][id].recv_buffer = shifted,
                               ![h][id].recv_param.window = @ + copy_size]
                         /\ thr' = [thr EXCEPT ![t] = [Return(@) EXCEPT
                               !.got = @ \o SubSeq(s.recv_buffer, 1, copy_size)]]
        /\ UNCHANGED <<event, pending, poisoned, net, hist, budget>>

RecvWake(t) ==
    /\ At(t, "recv", "recv_wait")
    /\ wait_event(t, thr[t].id, "DataArrived")
    /\ thr' = [thr EXCEPT ![t].pc = "recv_loop"]
    /\ UNCHANGED <<sockets, pending, poisoned, net, hist, budget>>

\* close up to its wait: FIN|ACK is emitted and send.next advanced whatever
\* the status is
\* the segments that are addressed to a host (a listening socket's remote
\* address is UNDETERMINED_IP_ADDR: its segments reach nobody)
Routed(pkts) == {p \in pkts : p.dst_addr \in Hosts}

CloseStep(t) ==
    LET h == HostOf(t)
        id == Target(t)
    IN  /\ Starts(t, "close")
        /\ Unlocked(h)
        /\ IF id \notin DOMAIN sockets[h]
           THEN /\ thr' = [thr EXCEPT ![t] = Fail(@)]
                /\ UNCHANGED <<sockets, net>>
           ELSE LET s == sockets[h][id]
                    sent == send_tcp_packet(s, id, s.send_param.next, s.recv_param.next,
                                            {"FIN", "ACK"}, <<>>)
                    s1 == [sent.sock EXCEPT !.send_param.next = @ + 1]
                IN  /\ net' = net \cup Routed({sent.pkt})
                    /\ CASE s.status = "Established" ->
                              /\ sockets' = [sockets EXCEPT ![h][id] =
                                                [s1 EXCEPT !.status = "FinWait1"]]
                              /\ thr' = [thr EXCEPT ![t] = WaitAt(@, "close_wait")]
                         [] s.status = "CloseWait" ->
                              /\ sockets' = [sockets EXCEPT ![h][id] =
                                                [s1 EXCEPT !.status = "LastAck"]]
                              /\ thr' = [thr EXCEPT ![t] = WaitAt(@, "close_wait")]
                         [] s.status = "Listen" ->
                              /\ sockets' = [sockets EXCEPT ![h] = Remove(@, id)]
                              /\ thr' = [thr EXCEPT ![t] = Return(@)]
                         [] OTHER ->
                              /\ sockets' = [sockets EXCEPT ![h][id] = s1]
                              /\ thr' = [thr EXCEPT ![t] = Return(@)]
        /\ UNCHANGED <<event, pending, poisoned, hist, budget>>

CloseWake(t) ==
    /\ At(t, "close", "close_wait")
    /\ wait_event(t, Target(t), "ConnectionClosed")
    /\ thr' = [thr EXCEPT ![t].pc = "close_remove"]
    /\ UNCHANGED <<sockets, pending, poisoned, net, hist, budget>>

CloseRemove(t) ==
    LET h == HostOf(t)
    IN  /\ At(t, "close", "close_remove")
        /\ Unlocked(h)
        /\ sockets' = [sockets EXCEPT ![h] = Remove(@, Target(t))]
        /\ thr' = [thr EXCEPT ![t] = Return(@)]
        /\ UNCHANGED <<event, pending, poisoned, net, hist, budget>>

\* the positions at which a thread next takes the table lock
LockPoint(t) ==
    \/ thr[t].pc = "idle" /\ thr[t].prog # <<>> /\ Head(thr[t].prog).op # "accept"
    \/ thr[t].pc \in {"accept_take", "connect_insert", "send_loop", "recv_loop",
                      "close_remove"}

\* sockets.write().unwrap() on a poisoned lock panics the calling thread
LockPanic(t) ==
    /\ LockPoint(t)
    /\ poisoned[HostOf(t)]
    /\ thr' = [thr EXCEPT ![t].pc = "panicked"]
    /\ UNCHANGED <<sockets, event, pending, poisoned, net, hist, budget>>


(***************************************************************************)
(* The receive dispatcher, the timer, the network and the clock.           *)
(***************************************************************************)
Range(f) == {f[i] : i \in DOMAIN f}

\* the children that a handler moved from SYN-RCVD to ESTABLISHED
Completed(before, after) ==
    LET ids == {id \in DOMAIN before :
                  /\ before[id].status = "SynRcvd"
                  /\ before[id].listening_socket # NoSockID
                  /\ id \in DOMAIN after /\ after[id].status = "Established"}
    IN  IF ids = {} THEN <<>>
        ELSE LET id == CHOOSE i \in ids : TRUE
             IN  <<(<<before[id].listening_socket, id>>)>>

\* the sockets of host h for which the events ev announce CONNECTION-CLOSED
Closed(h, ev) ==
    {<<h, ev[i].sock_id>> : i \in {j \in 1 .. Len(ev) : ev[j].kind = "ConnectionClosed"}}

\* the SockID of the child a listening socket creates on segment p
ChildOf(p) == SockID(p.dst_addr, p.src_addr, p.dest, p.src)

\* the dispatcher handles segment p, which the network delivered or an
\* outside peer sent, while holding the table lock
Dispatch(p) ==
    LET h == p.dst_addr
    IN  /\ Unlocked(h)
        /\ \E iss \in IssOf(h) :
           \E r \in {receive_handler(sockets[h], p, iss, Made(h, ChildOf(p)) + 1)} :
               /\ sockets' = [sockets EXCEPT ![h] = r.table]
               /\ net' = (net \ {p}) \cup Range(r.out)
               /\ pending' = [pending EXCEPT ![h] = r.ev]
               /\ poisoned' = [poisoned EXCEPT ![h] = r.panic]
               /\ hist' = [hist EXCEPT
                     !.made = IF DOMAIN r.table # DOMAIN sockets[h]
                              THEN Count(@, h, ChildOf(p)) ELSE @,
                     !.completed = @ \o Completed(sockets[h], r.table),
                     !.closed = @ \cup Closed(h, r.ev)]
        /\ UNCHANGED <<event, thr>>

Receive(p) ==
    /\ p \in net
    /\ Dispatch(p)
    /\ UNCHANGED budget

Lose(p) ==
    /\ p \in net
    /\ budget.loss > 0
    /\ net' = net \ {p}
    /\ budget' = [budget EXCEPT !.loss = @ - 1]
    /\ UNCHANGED <<sockets, event, pending, poisoned, thr, hist>>

\* one pass of the timer thread over the table
Timer(h) ==
    /\ Unlocked(h)
    /\ \E order \in Orders(DOMAIN sockets[h]) :
       \E r \in {TimerPass(sockets[h], order)} :
           /\ sockets' = [sockets EXCEPT ![h] = r.table]
           /\ net' = net \cup Range(r.out)
           /\ pending' = [pending EXCEPT ![h] = r.ev]
           /\ hist' = [hist EXCEPT !.closed = @ \cup Closed(h, r.ev)]
    /\ UNCHANGED <<event, poisoned, thr, budget>>

Expire(s) ==
    [s EXCEPT !.retransmission_queue =
        [i \in 1..Len(@) |-> [@[i] EXCEPT !.expired = TRUE]]]

\* RETRANSMITTION_TIMEOUT passes: every queued segment is now timed out
Elapse ==
    /\ \E h \in Hosts : \E id \in DOMAIN sockets[h] :
          \E i \in 1..Len(sockets[h][id].retransmission_queue) :
             ~sockets[h][id].retransmission_queue[i].expired
    /\ budget.elapse # 0
    /\ sockets' = [h \in Hosts |->
                     [id \in DOMAIN sockets[h] |-> Expire(sockets[h][id])]]
    /\ budget' = [budget EXCEPT !.elapse = IF @ > 0 THEN @ - 1 ELSE @]
    /\ UNCHANGED <<event, pending, poisoned, net, thr, hist>>

(***************************************************************************)
(* Specifications.                                                         *)
(***************************************************************************)
NoCalls == [t \in Threads |-> <<>>]
\* elapse < 0: the timeout may run out any number of times
Budget(loss, elapse) == [loss |-> loss, elapse |-> elapse]

\* the steps of the engine itself: event publication, dispatcher, timer
Engine ==
    \/ \E h \in Hosts : Publish(h)
    \/ \E p \in net : Receive(p)
    \/ \E h \in Hosts : Timer(h)

\* Closing: the client connects and closes at once; the server accepts,
\* reads the end of the stream and closes.  Segments are reordered and
\* retransmitted, none is lost.
InitClose ==
    InitWith([NoCalls EXCEPT
        !["c1"] = <<ConnectCall, CloseCall("conn")>>,
        !["s1"] = <<ListenCall, AcceptCall, RecvCall(Capacity), CloseCall("conn")>>],
        Budget(0, MaxElapse))

NextClose ==
    \/ \E t \in Threads : Listen(t)
    \/ \E t \in Threads : AcceptWait(t)
    \/ \E t \in Threads : AcceptTake(t)
    \/ \E t \in Threads : ConnectSyn(t)
    \/ \E t \in Threads : ConnectInsert(t)
    \/ \E t \in Threads : ConnectWake(t)
    \/ \E t \in Threads : RecvStep(t)
    \/ \E t \in Threads : RecvWake(t)
    \/ \E t \in Threads : CloseStep(t)
    \/ \E t \in Threads : CloseWake(t)
    \/ \E t \in Threads : CloseRemove(t)
    \/ Engine
    \/ Elapse

SpecClose == InitClose /\ [][NextClose]_vars


\* Transfer: the client connects and sends three one-byte segments; the
\* server accepts and reads.  Segments are reordered, none is lost.
TransferData == <<1, 2, 3>>

InitTransfer ==
    InitWith([NoCalls EXCEPT
        !["c1"] = <<ConnectCall, SendCall(<<1>>), SendCall(<<2>>), SendCall(<<3>>)>>,
        !["s1"] = <<ListenCall, AcceptCall, RecvCall(Capacity), RecvCall(Capacity)>>],
        Budget(0, 0))

NextTransfer ==
    \/ \E t \in Threads : Listen(t)
    \/ \E t \in Threads : AcceptWait(t)
    \/ \E t \in Threads : AcceptTake(t)
    \/ \E t \in Threads : ConnectSyn(t)
    \/ \E t \in Threads : ConnectInsert(t)
    \/ \E t \in Threads : ConnectWake(t)
    \/ \E t \in Threads : SendStep(t)
    \/ \E t \in Threads : RecvStep(t)
    \/ \E t \in Threads : RecvWake(t)
    \/ \E t \in Threads : LockPanic(t)
    \/ Engine

SpecTransfer == InitTransfer /\ [][NextTransfer]_vars

\* Retransmit: the client connects and sends one segment; the server accepts
\* and reads.  A segment may be lost and the retransmission timeout may run
\* out, so data and acknowledgments are retransmitted and duplicated.
RetransmitData == <<1>>

InitRetransmit ==
    InitWith([NoCalls EXCEPT
        !["c1"] = <<ConnectCall, SendCall(RetransmitData)>>,
        !["s1"] = <<ListenCall, AcceptCall, RecvCall(Capacity)>>],
        Budget(MaxLoss, MaxElapse))

NextRetransmit ==
    \/ \E t \in Threads : Listen(t)
    \/ \E t \in Threads : AcceptWait(t)
    \/ \E t \in Threads : AcceptTake(t)
    \/ \E t \in Threads : ConnectSyn(t)
    \/ \E t \in Threads : ConnectInsert(t)
    \/ \E t \in Threads : ConnectWake(t)
    \/ \E t \in Threads : SendStep(t)
    \/ \E t \in Threads : RecvStep(t)
    \/ \E t \in Threads : RecvWake(t)
    \/ \E t \in Threads : LockPanic(t)
    \/ \E p \in net : Lose(p)
    \/ Engine
    \/ Elapse

SpecRetransmit == InitRetransmit /\ [][NextRetransmit]_vars

\* Race: two threads connect to the same remote endpoint and two threads
\* listen on the same local address and port, concurrently.
InitRace ==
    InitWith([NoCalls EXCEPT
        !["c1"] = <<ConnectCall>>,
        !["c2"] = <<ConnectCall>>,
        !["s1"] = <<ListenCall>>,
        !["s2"] = <<ListenCall>>],
        Budget(0, 0))

NextRace ==
    \/ \E t \in Threads : Listen(t)
    \/ \E t \in Threads : ConnectSyn(t)
    \/ \E t \in Threads : ConnectInsert(t)
    \/ \E t \in Threads : ConnectWake(t)
    \/ Engine

SpecRace == InitRace /\ [][NextRace]_vars

\* Accept: two clients connect to a listening server whose application
\* accepts twice.  Segments are reordered, none is lost or retransmitted.
InitAccept ==
    InitWith([NoCalls EXCEPT
        !["c1"] = <<ConnectCall>>,
        !["c2"] = <<ConnectCall>>,
        !["s1"] = <<ListenCall, AcceptCall, AcceptCall>>],
        Budget(0, 0))

NextAccept ==
    \/ \E t \in Threads : Listen(t)
    \/ \E t \in Threads : AcceptWait(t)
    \/ \E t \in Threads : AcceptTake(t)
    \/ \E t \in Threads : ConnectSyn(t)
    \/ \E t \in Threads : ConnectInsert(t)
    \/ \E t \in Threads : ConnectWake(t)
    \/ Engine

SpecAccept == InitAccept /\ [][NextAccept]_vars

\* every step that can be taken eventually is: the threads, the dispatcher
\* and the timer are scheduled
SpecAcceptFair == SpecAccept /\ WF_vars(NextAccept)

\* Half close: the client connects and closes; the server accepts and never
\* closes.  The retransmission timeout runs out any number of times.
InitHalfClose ==
    InitWith([NoCalls EXCEPT
        !["c1"] = <<ConnectCall, CloseCall("conn")>>,
        !["s1"] = <<ListenCall, AcceptCall>>],
        Budget(0, 0 - 1))

NextHalfClose ==
    \/ \E t \in Threads : Listen(t)
    \/ \E t \in Threads : AcceptWait(t)
    \/ \E t \in Threads : AcceptTake(t)
    \/ \E t \in Threads : ConnectSyn(t)
    \/ \E t \in Threads : ConnectInsert(t)
    \/ \E t \in Threads : ConnectWake(t)
    \/ \E t \in Threads : CloseStep(t)
    \/ \E t \in Threads : CloseWake(t)
    \/ \E t \in Threads : CloseRemove(t)
    \/ Engine
    \/ Elapse

\* the threads, the dispatcher and the timer are scheduled, and the
\* retransmission timeout of a queued segment eventually runs out
SpecHalfClose ==
    InitHalfClose /\ [][NextHalfClose]_vars /\ WF_vars(NextHalfClose) /\ WF_vars(Elapse)

\* Window: the client connects and sends more than the peer's buffer holds;
\* the server's application accepts and never reads.  Segments are
\* reordered, none is lost or retransmitted.
WindowData == <<1, 2, 3, 4, 5, 6, 7>>

InitWindow ==
    InitWith([NoCalls EXCEPT
        !["c1"] = <<ConnectCall, SendCall(WindowData)>>,
        !["s1"] = <<ListenCall, AcceptCall>>],
        Budget(0, 0))

NextWindow ==
    \/ \E t \in Threads : Listen(t)
    \/ \E t \in Threads : AcceptWait(t)
    \/ \E t \in Threads : AcceptTake(t)
    \/ \E t \in Threads : ConnectSyn(t)
    \/ \E t \in Threads : ConnectInsert(t)
    \/ \E t \in Threads : ConnectWake(t)
    \/ \E t \in Threads : SendStep(t)
    \/ \E t \in Threads : SendWake(t)
    \/ \E t \in Threads : LockPanic(t)
    \/ Engine

SpecWindow == InitWindow /\ [][NextWindow]_vars

\* Duplex: the client connects and sends one byte more than the window
\* while the server's application sends one byte back, so that a segment of
\* the server both acknowledges and carries payload.  Segments are reordered,
\* none is lost or retransmitted.
DuplexData == <<1, 2, 3, 4>>

InitDuplex ==
    InitWith([NoCalls EXCEPT
        !["c1"] = <<ConnectCall, SendCall(DuplexData)>>,
        !["s1"] = <<ListenCall, AcceptCall, SendCall(<<9>>)>>],
        Budget(0, 0))

NextDuplex ==
    \/ \E t \in Threads : Listen(t)
    \/ \E t \in Threads : AcceptWait(t)
    \/ \E t \in Threads : AcceptTake(t)
    \/ \E t \in Threads : ConnectSyn(t)
    \/ \E t \in Threads : ConnectInsert(t)
    \/ \E t \in Threads : ConnectWake(t)
    \/ \E t \in Threads : SendStep(t)
    \/ \E t \in Threads : SendWake(t)
    \/ \E t \in Threads : LockPanic(t)
    \/ Engine

\* the threads, the dispatcher and the timer are scheduled
SpecDuplex == InitDuplex /\ [][NextDuplex]_vars /\ WF_vars(NextDuplex)

\* Exhaust: the client connects and sends one byte; the server accepts.
\* The retransmission timeout runs out any number of times, so the retries
\* of a segment that the network delays are exhausted before its ACK arrives.
ExhaustData == <<1>>

InitExhaust ==
    InitWith([NoCalls EXCEPT
        !["c1"] = <<ConnectCall, SendCall(ExhaustData)>>,
        !["s1"] = <<ListenCall, AcceptCall>>],
        Budget(0, 0 - 1))

NextExhaust ==
    \/ \E t \in Threads : Listen(t)
    \/ \E t \in Threads : AcceptWait(t)
    \/ \E t \in Threads : AcceptTake(t)
    \/ \E t \in Threads : ConnectSyn(t)
    \/ \E t \in Threads : ConnectInsert(t)
    \/ \E t \in Threads : ConnectWake(t)
    \/ \E t \in Threads : SendStep(t)
    \/ \E t \in Threads : LockPanic(t)
    \/ Engine
    \/ Elapse

SpecExhaust == InitExhaust /\ [][NextExhaust]_vars

\* Orphan: the client connects while the server's application closes its
\* listening socket.  Segments are reordered, none is lost or retransmitted.
InitOrphan ==
    InitWith([NoCalls EXCEPT
        !["c1"] = <<ConnectCall>>,
        !["s1"] = <<ListenCall, CloseCall("lis")>>],
        Budget(0, 0))

NextOrphan ==
    \/ \E t \in Threads : Listen(t)
    \/ \E t \in Threads : ConnectSyn(t)
    \/ \E t \in Threads : ConnectInsert(t)
    \/ \E t \in Threads : ConnectWake(t)
    \/ \E t \in Threads : CloseStep(t)
    \/ Engine

SpecOrphan == InitOrphan /\ [][NextOrphan]_vars

\* Reclose: the client connects and closes, and a second thread of the
\* client closes the same socket again; the server accepts and never closes.
\* Segments are reordered, none is lost or retransmitted.
InitReclose ==
    InitWith([NoCalls EXCEPT
        !["c1"] = <<ConnectCall, CloseCall("conn")>>,
        !["c2"] = <<CloseCall("c1")>>,
        !["s1"] = <<ListenCall, AcceptCall>>],
        Budget(0, 0))

NextReclose ==
    \/ \E t \in Threads : Listen(t)
    \/ \E t \in Threads : AcceptWait(t)
    \/ \E t \in Threads : AcceptTake(t)
    \/ \E t \in Threads : ConnectSyn(t)
    \/ \E t \in Threads : ConnectInsert(t)
    \/ \E t \in Threads : ConnectWake(t)
    \/ \E t \in Threads : CloseStep(t)
    \/ Engine

SpecReclose == InitReclose /\ [][NextReclose]_vars

\* Passive: one client connects and closes, a second client connects; the
\* server accepts one connection and closes it.  Segments are reordered,
\* none is lost or retransmitted.
InitPassive ==
    InitWith([NoCalls EXCEPT
        !["c1"] = <<ConnectCall, CloseCall("conn")>>,
        !["c2"] = <<ConnectCall>>,
        !["s1"] = <<ListenCall, AcceptCall, CloseCall("conn")>>],
        Budget(0, 0))

NextPassive ==
    \/ \E t \in Threads : Listen(t)
    \/ \E t \in Threads : AcceptWait(t)
    \/ \E t \in Threads : AcceptTake(t)
    \/ \E t \in Threads : ConnectSyn(t)
    \/ \E t \in Threads : ConnectInsert(t)
    \/ \E t \in Threads : ConnectWake(t)
    \/ \E t \in Threads : CloseStep(t)
    \/ \E t \in Threads : CloseWake(t)
    \/ \E t \in Threads : CloseRemove(t)
    \/ Engine

SpecPassive == InitPassive /\ [][NextPassive]_vars

\* Reorder: the client connects and sends two segments' worth of data; the
\* retransmission timeout runs out while both are queued.  No segment is
\* lost.
ReorderData == <<1, 2, 3, 4>>

InitReorder ==
    InitWith([NoCalls EXCEPT
        !["c1"] = <<ConnectCall, SendCall(ReorderData)>>,
        !["s1"] = <<ListenCall, AcceptCall>>],
        Budget(0, MaxElapse))

NextReorder ==
    \/ \E t \in Threads : Listen(t)
    \/ \E t \in Threads : AcceptWait(t)
    \/ \E t \in Threads : AcceptTake(t)
    \/ \E t \in Threads : ConnectSyn(t)
    \/ \E t \in Threads : ConnectInsert(t)
    \/ \E t \in Threads : ConnectWake(t)
    \/ \E t \in Threads : SendStep(t)
    \/ \E t \in Threads : SendWake(t)
    \/ \E t \in Threads : LockPanic(t)
    \/ Engine
    \/ Elapse

SpecReorder == InitReorder /\ [][NextReorder]_vars

\* Stall: both applications send one byte on the connection and the
\* retransmission timeout runs out while the segments are queued.  No
\* segment is lost.
InitStall ==
    InitWith([NoCalls EXCEPT
        !["c1"] = <<ConnectCall, SendCall(<<1>>)>>,
        !["s1"] = <<ListenCall, AcceptCall, SendCall(<<9>>)>>],
        Budget(0, MaxElapse))

NextStall ==
    \/ \E t \in Threads : Listen(t)
    \/ \E t \in Threads : AcceptWait(t)
    \/ \E t \in Threads : AcceptTake(t)
    \/ \E t \in Threads : ConnectSyn(t)
    \/ \E t \in Threads : ConnectInsert(t)
    \/ \E t \in Threads : ConnectWake(t)
    \/ \E t \in Threads : SendStep(t)
    \/ \E t \in Threads : LockPanic(t)
    \/ Engine
    \/ Elapse

SpecStall == InitStall /\ [][NextStall]_vars

\* Stray: the client connects and sends one byte; the server accepts.  The
\* raw socket of a host also receives segments that carry no ACK flag and
\* are addressed to one of its connections.  No segment is lost, the
\* timeout does not run out.
StrayFlags == {{}, {"FIN"}}
StrayPayloads == {<<>>, <<7>>}

\* the segments without ACK flag that may arrive for socket id of host h
Strays(h, id) ==
    LET s == sockets[h][id]
    IN  {TCPPacket(SockID(id[2], id[1], id[4], id[3]), s.recv_param.next, ack,
                   flag, Capacity, payload) :
            ack \in s.send_param.unacked_seq .. s.send_param.next + 1,
            flag \in StrayFlags, payload \in StrayPayloads}

\* packet_iter.next() yields a segment that no socket of the model sent
Stray(h) ==
    /\ \A q \in net : "ACK" \in q.flag \/ "SYN" \in q.flag
    /\ \E id \in DOMAIN sockets[h] :
          /\ sockets[h][id].status \in {"Established", "FinWait1", "FinWait2"}
          /\ \E p \in Strays(h, id) : net' = net \cup {p}
    /\ UNCHANGED <<sockets, event, pending, poisoned, thr, hist, budget>>

InitStray ==
    InitWith([NoCalls EXCEPT
        !["c1"] = <<ConnectCall, SendCall(<<1>>)>>,
        !["s1"] = <<ListenCall, AcceptCall>>],
        Budget(0, 0))

NextStray ==
    \/ \E t \in Threads : Listen(t)
    \/ \E t \in Threads : AcceptWait(t)
    \/ \E t \in Threads : AcceptTake(t)
    \/ \E t \in Threads : ConnectSyn(t)
    \/ \E t \in Threads : ConnectInsert(t)
    \/ \E t \in Threads : ConnectWake(t)
    \/ \E t \in Threads : SendStep(t)
    \/ \E h \in Hosts : Stray(h)
    \/ Engine

SpecStray == InitStray /\ [][NextStray]_vars

\* Remote: the client connects and closes the connection, the server
\* listens and accepts; segments of another TCP implementation that uses
\* the peer's address arrive as well.  These segments are drawn from a small
\* set: its SYN|ACK, ACK or FIN|ACK, acknowledging any of the sequence
\* numbers the socket has in flight.  No segment is lost, the timeout does
\* not run out.
RemoteFlags == {{"SYN", "ACK"}, {"ACK"}, {"FIN", "ACK"}}
\* the initial sequence number of the remote peer
RemoteIss == 20
\* the sequence numbers the remote peer uses after its SYN
MaxRemote == 2

\* the segments the remote peer of socket id of host h may send next
RemoteSegments(h, id, payloads) ==
    LET s == sockets[h][id]
        seq == IF s.status = "SynSent" THEN RemoteIss ELSE s.recv_param.next
    IN  {TCPPacket(SockID(id[2], id[1], id[4], id[3]), seq, ack, flag,
                   Capacity, payload) :
            ack \in s.send_param.unacked_seq .. s.send_param.next,
            flag \in RemoteFlags, payload \in payloads}

\* packet_iter.next() yields the next segment of the remote peer of a
\* socket that connect created
Remote(h) ==
    /\ \A q \in net : q.dst_addr # h
    /\ \E id \in DOMAIN sockets[h] :
          /\ sockets[h][id].status # "Listen"
          /\ sockets[h][id].listening_socket = NoSockID
          /\ sockets[h][id].recv_param.next <= RemoteIss + MaxRemote
          /\ \E p \in RemoteSegments(h, id, {<<>>}) : net' = net \cup {p}
    /\ UNCHANGED <<sockets, event, pending, poisoned, thr, hist, budget>>

InitRemote ==
    InitWith([NoCalls EXCEPT
        !["c1"] = <<ConnectCall, CloseCall("conn")>>,
        !["s1"] = <<ListenCall, AcceptCall>>],
        Budget(0, 0))

NextRemote ==
    \/ \E t \in Threads : Listen(t)
    \/ \E t \in Threads : AcceptWait(t)
    \/ \E t \in Threads : AcceptTake(t)
    \/ \E t \in Threads : ConnectSyn(t)
    \/ \E t \in Threads : ConnectInsert(t)
    \/ \E t \in Threads : ConnectWake(t)
    \/ \E t \in Threads : CloseStep(t)
    \/ \E t \in Threads : CloseWake(t)
    \/ \E t \in Threads : CloseRemove(t)
    \/ \E h \in Hosts : Remote(h)
    \/ Engine

SpecRemote == InitRemote /\ [][NextRemote]_vars

(***************************************************************************)
(* Claims.                                                                 *)
(***************************************************************************)
AllSockets == {<<h, id>> : h \in Hosts, id \in UNION {DOMAIN sockets[g] : g \in Hosts}}
Live == {x \in AllSockets : x[2] \in DOMAIN sockets[x[1]]}
Sock(x) == sockets[x[1]][x[2]]

\* C1: in every reachable state every socket of the table has
\* send.unacked_seq <= send.next.
C1_UnackedLeNext ==
    \A x \in Live : Sock(x).send_param.unacked_seq <= Sock(x).send_param.next


\* the sockets of the server that belong to a connection
ServerConns == {id \in DOMAIN sockets[ServerHost] : id[2] # UNDETERMINED_IP_ADDR}
Used(s) == Capacity - s.recv_param.window

\* C2: the first (capacity - recv.window) bytes of the receive buffer are the
\* bytes the peer sent, in order, from the first byte recv has not yet
\* returned; the readable prefix never covers a byte that was not received.
C2_PrefixIsSent ==
    \A id \in ServerConns :
        LET s == sockets[ServerHost][id]
            consumed == Len(thr["s1"].got)
        IN  /\ consumed + Used(s) <= Len(TransferData)
            /\ SubSeq(s.recv_buffer, 1, Used(s)) =
                   SubSeq(TransferData, consumed + 1, consumed + Used(s))


IsPrefix(a, b) == Len(a) <= Len(b) /\ a = SubSeq(b, 1, Len(a))
Finished(t) == thr[t].pc = "idle" /\ thr[t].prog = <<>>

\* C3: after send(B) the recv calls of the other end return exactly B, also
\* when segments are dropped and retransmitted: the receiver never fails, what
\* it has read is a prefix of B, and once its recv has returned it has read B.
C3_RoundTrip ==
    /\ thr["s1"].pc \notin {"panicked", "failed"}
    /\ IsPrefix(thr["s1"].got, RetransmitData)
    /\ Finished("s1") => thr["s1"].got = RetransmitData


\* C4: no operation inserts a socket under a SockID that a live socket
\* holds: an entry that stays in the table stays the same socket.
C4_NoEntryReplaced ==
    [][\A h \in Hosts : \A id \in DOMAIN sockets[h] :
          id \in DOMAIN sockets'[h] => sockets'[h][id].uid = sockets[h][id].uid]_vars


\* the other end of connection x = <<host, SockID>>
Peer(x) == <<x[2][2], SockID(x[2][2], x[2][1], x[2][4], x[2][3])>>
IsLive(x) == x[1] \in Hosts /\ x[2] \in DOMAIN sockets[x[1]]
BothEstablished(x) ==
    /\ IsLive(x) /\ Sock(x).status = "Established"
    /\ IsLive(Peer(x)) /\ Sock(Peer(x)).status = "Established"
\* nothing but the SYN was sent yet
Fresh(s) == s.send_param.next = s.send_param.initial_seq + 1

\* the sender of segment p, when its socket is in the table
Sender(p) == <<p.src_addr, SockID(p.src_addr, p.dst_addr, p.src, p.dest)>>
HandshakeForm(p) ==
    IsLive(Sender(p)) =>
        LET s == Sock(Sender(p))
        IN  /\ p.flag = {"SYN"} => p.seq = s.send_param.initial_seq
            /\ p.flag = {"SYN", "ACK"} =>
                  /\ p.seq = s.send_param.initial_seq
                  /\ p.ack = s.recv_param.initial_seq + 1
            /\ (/\ p.flag = {"ACK"} /\ p.payload = <<>> /\ Fresh(s)
                /\ IsLive(Peer(Sender(p))) /\ Fresh(Sock(Peer(Sender(p))))) =>
                  /\ p.seq = s.send_param.initial_seq + 1
                  /\ p.ack = s.recv_param.initial_seq + 1

\* C5 as stated: whenever both ends are ESTABLISHED, each end's
\* recv.initial_seq is the peer's send.initial_seq, its recv.next is the
\* peer's send.next and its send.unacked_seq is its own send.next.
C5_EstablishedAgree ==
    \A x \in Live : BothEstablished(x) =>
        /\ Sock(x).recv_param.initial_seq = Sock(Peer(x)).send_param.initial_seq
        /\ Sock(x).recv_param.next = Sock(Peer(x)).send_param.next
        /\ Sock(x).send_param.unacked_seq = Sock(x).send_param.next

\* C5 amended: the handshake segments carry SYN seq=ISS_c, SYN|ACK seq=ISS_s
\* ack=ISS_c+1, ACK seq=ISS_c+1 ack=ISS_s+1; whenever both ends are
\* ESTABLISHED each end's recv.initial_seq is the peer's send.initial_seq,
\* and as long as neither end has sent anything after its SYN each end's
\* recv.next is the peer's send.next and its send.unacked_seq its send.next.
C5_HandshakeAgree ==
    /\ \A p \in net : HandshakeForm(p)
    /\ \A x \in Live : BothEstablished(x) =>
        /\ Sock(x).recv_param.initial_seq = Sock(Peer(x)).send_param.initial_seq
        /\ (Fresh(Sock(x)) /\ Fresh(Sock(Peer(x)))) =>
              /\ Sock(x).recv_param.next = Sock(Peer(x)).send_param.next
              /\ Sock(x).send_param.unacked_seq = Sock(x).send_param.next

C5_Witness ==
    \E x \in Live : BothEstablished(x) /\ Fresh(Sock(x)) /\ Fresh(Sock(Peer(x)))


\* the listening socket of the server and its queue, paired with the listener
ListenID == SockID(ServerHost, UNDETERMINED_IP_ADDR, ServerPort, UNDETERMINED_PORT)
Queued ==
    IF ListenID \in DOMAIN sockets[ServerHost]
    THEN [i \in 1 .. Len(sockets[ServerHost][ListenID].connection_established_queue) |->
            <<ListenID, sockets[ServerHost][ListenID].connection_established_queue[i]>>]
    ELSE <<>>
NoDup(q) == \A i, j \in 1 .. Len(q) : q[i] = q[j] => i = j

\* C6: accept returns only children of the listener that reached ESTABLISHED,
\* in the order in which they reached it, and each child is enqueued exactly
\* once and returned by exactly one accept: the children in the order of their
\* SYN-RCVD to ESTABLISHED transition are those accept returned, in the order
\* it returned them, followed by those still queued, and none occurs twice.
C6_AcceptInOrder ==
    /\ hist.completed = hist.accepted \o Queued
    /\ NoDup(hist.completed)
    /\ \A i \in 1 .. Len(hist.accepted) :
          LET c == hist.accepted[i][2]
          IN  c \in DOMAIN sockets[ServerHost] =>
                /\ sockets[ServerHost][c].listening_socket = hist.accepted[i][1]
                /\ sockets[ServerHost][c].status = "Established"

C6_Witness ==
    /\ Len(hist.accepted) = 2
    /\ hist.accepted[1] # hist.accepted[2]
    /\ thr["s1"].prog = <<>>


\* thread s1 has n calls left and the next one is accept: it is about to
\* call accept or is inside it
AcceptPending(n) ==
    /\ Len(thr["s1"].prog) = n
    /\ Head(thr["s1"].prog).op = "accept"
    /\ thr["s1"].pc \in {"idle", "accept_take"}

\* C7: a blocked accept is never stuck while its wake-up condition holds: if
\* connection_established_queue of the listening socket is non-empty, a call
\* to accept on it eventually returns.
C7_AcceptReturns ==
    \A n \in 1 .. 2 : (AcceptPending(n) /\ Queued # <<>>) ~> ~AcceptPending(n)


\* C8: every close call on a socket in ESTABLISHED or CLOSE-WAIT eventually
\* returns, and the socket is then absent from the table, whatever the peer
\* does.
C8_CloseReturns ==
    (thr["c1"].pc = "close_wait")
        ~> (/\ thr["c1"].prog = <<>>
            /\ thr["c1"].pc = "idle"
            /\ thr["c1"].id \notin DOMAIN sockets[ClientHost])


\* the payload bytes an ESTABLISHED socket has sent that are not acknowledged
InFlight(s) == s.send_param.next - s.send_param.unacked_seq

\* C9: send.window never goes below zero, and in every reachable state the
\* number of payload bytes sent but not yet acknowledged does not exceed the
\* window the peer advertised at handshake (the capacity of its buffer).
C9_WindowBounds ==
    \A x \in Live :
        /\ Sock(x).send_param.window >= 0
        /\ Sock(x).status = "Established" => InFlight(Sock(x)) <= Capacity

\* C10: a send call blocked because send.window is zero eventually resumes
\* and emits the remaining bytes once the peer has acknowledged the
\* outstanding data.
C10_SendResumes ==
    (/\ thr["c1"].pc = "send_wait"
     /\ thr["c1"].id \in DOMAIN sockets[ClientHost]
     /\ InFlight(sockets[ClientHost][thr["c1"].id]) = 0)
        ~> (thr["c1"].prog = <<>>)

\* C11: send-window conservation: in every reachable state of an established
\* connection send.window plus the payload bytes of not-yet-acknowledged sent
\* data equals the window adopted at handshake; in particular whenever
\* send.unacked_seq = send.next and the retransmission queue is empty,
\* send.window is back at the advertised window.
C11_WindowConserved ==
    \A x \in Live : Sock(x).status = "Established" =>
        /\ Sock(x).send_param.window + InFlight(Sock(x)) = Capacity
        /\ (InFlight(Sock(x)) = 0 /\ Sock(x).retransmission_queue = <<>>) =>
              Sock(x).send_param.window = Capacity

\* C12: no sequence of API calls and inbound segments tears down the receive
\* dispatcher: it never panics (a panic while it holds the table lock
\* poisons the lock), in particular not when a listening socket is closed
\* while one of its children is still in SYN-RCVD.
C12_DispatcherSurvives == \A h \in Hosts : ~poisoned[h]

\* thread t is about to call close on a socket of the table whose state is
\* none of ESTABLISHED, CLOSE-WAIT, LISTEN
ClosesOther(t) ==
    /\ Starts(t, "close")
    /\ Target(t) \in DOMAIN sockets[HostOf(t)]
    /\ sockets[HostOf(t)][Target(t)].status \notin {"Established", "CloseWait", "Listen"}

\* C13: close on a socket whose state is none of ESTABLISHED, CLOSE-WAIT or
\* LISTEN is a no-op: the step in which the call runs emits no segment and
\* leaves send.next, the retransmission queue, the status and the table
\* unchanged.
C13_CloseNoOp ==
    [][\A t \in Threads :
          (ClosesOther(t) /\ thr'[t] # thr[t] /\ thr'[t].pc # "panicked")
              => (net' = net /\ sockets' = sockets)]_vars

\* the positions at which a thread waits on the event channel
WaitPositions == {"connect_wait", "send_wait", "recv_wait", "close_wait"}

QueuesFin(s) ==
    \E i \in 1 .. Len(s.retransmission_queue) :
        "FIN" \in s.retransmission_queue[i].packet.flag

\* CONNECTION-CLOSED for id is in the event slot or about to be published
ClosedSignalled(h, id) ==
    \/ event[h] = TCPEvent(id, "ConnectionClosed")
    \/ \E i \in 1 .. Len(pending[h]) : pending[h][i] = TCPEvent(id, "ConnectionClosed")

\* C15: passive close: a close in CLOSE-WAIT emits FIN and moves the socket
\* to LAST-ACK, and once the peer's ACK covering that FIN has arrived
\* CONNECTION-CLOSED is published, close returns and the socket is removed.
\* In finite-run form: while close waits on a LAST-ACK socket, either its FIN
\* is still queued (the timer will publish CONNECTION-CLOSED when it finds
\* it acknowledged or exhausted) or CONNECTION-CLOSED is there for close to
\* take; otherwise nothing would ever wake close.
C15_PassiveCloseReturns ==
    \A t \in Threads :
        (/\ thr[t].pc = "close_wait"
         /\ Target(t) \in DOMAIN sockets[HostOf(t)]
         /\ sockets[HostOf(t)][Target(t)].status = "LastAck")
        => \/ QueuesFin(sockets[HostOf(t)][Target(t)])
           \/ ClosedSignalled(HostOf(t), Target(t))

\* the peer of x closed after it had received x's FIN: x's FIN is
\* acknowledged by the peer's FIN at the latest
PeerClosedAfter(x) == IsLive(Peer(x)) /\ Sock(Peer(x)).status = "LastAck"

\* C16: active close: after close on an ESTABLISHED socket the socket is in
\* FIN-WAIT-1, then FIN-WAIT-2 exactly when its FIN is acknowledged; when the
\* peer's FIN then arrives CONNECTION-CLOSED is published for this socket,
\* after which close returns and removes the socket.  In finite-run form:
\* while close waits on a socket in FIN-WAIT-2 whose peer sent its FIN from
\* CLOSE-WAIT and for which CONNECTION-CLOSED was published, that event is
\* still there for close to take.
C16_ActiveCloseReturns ==
    \A t \in Threads :
        (/\ thr[t].pc = "close_wait"
         /\ Target(t) \in DOMAIN sockets[HostOf(t)]
         /\ sockets[HostOf(t)][Target(t)].status = "FinWait2"
         /\ PeerClosedAfter(<<HostOf(t), Target(t)>>)
         /\ <<HostOf(t), Target(t)>> \in hist.closed)
        => ClosedSignalled(HostOf(t), Target(t))

\* C17: in every reachable state each socket's retransmission queue is
\* ordered by ascending sequence number of its segments, also after the timer
\* has resent a timed-out head segment while later segments are queued
\* behind it.
C17_QueueAscending ==
    \A x \in Live :
        \A i, j \in 1 .. Len(Sock(x).retransmission_queue) :
            i < j => Sock(x).retransmission_queue[i].packet.seq
                        <= Sock(x).retransmission_queue[j].packet.seq

\* an entry of x's retransmission queue is unacknowledged and timed out
TimedOut(x) ==
    \E i \in 1 .. Len(Sock(x).retransmission_queue) :
        /\ Sock(x).retransmission_queue[i].expired
        /\ Sock(x).retransmission_queue[i].packet.seq >= Sock(x).send_param.unacked_seq

\* C18: retransmission discipline of the timer: a queued segment is resent
\* only when timed out and unacknowledged, at most MAX_TRANSMITTION times,
\* then dropped; and every unacknowledged queued segment whose timeout has
\* elapsed is eventually resent or dropped.  In finite-run form: while such a
\* segment is queued, the timer thread of its host is still running.
C18_TimedOutServed ==
    \A x \in Live : TimedOut(x) => ~poisoned[x[1]]

\* the segments of net that the dispatcher hands to process_payload when it
\* receives them now, with the socket as process_payload finds it
PayloadCases ==
    {c \in {[pkt |-> p, id |-> Lookup(sockets[p.dst_addr], p)] : p \in net} :
        /\ Unlocked(c.pkt.dst_addr)
        /\ c.id # NoSockID
        /\ sockets[c.pkt.dst_addr][c.id].status \in {"Established", "FinWait1", "FinWait2"}
        /\ c.pkt.payload # <<>>
        /\ ~AckAdvance(sockets[c.pkt.dst_addr][c.id], c.id, c.pkt).stop}
PayloadSock(c) == AckAdvance(sockets[c.pkt.dst_addr][c.id], c.id, c.pkt).sock
PayloadOffset(c) ==
    (Capacity - PayloadSock(c).recv_param.window)
        + (c.pkt.seq - PayloadSock(c).recv_param.next)

\* C19: for every payload-carrying segment processed in ESTABLISHED,
\* FIN-WAIT-1 or FIN-WAIT-2 the computed buffer offset
\* (capacity - recv.window) + (seg.seq - recv.next) lies in [0, capacity],
\* the copy stays inside the receive buffer and recv.window stays in
\* [0, capacity] afterwards; also for a retransmitted duplicate below
\* recv.next and for a segment beyond the free space of the buffer.
C19_OffsetInBuffer ==
    \A c \in PayloadCases :
        LET r == process_payload(PayloadSock(c), c.id, c.pkt)
        IN  /\ c.pkt.seq >= PayloadSock(c).recv_param.next
            /\ PayloadOffset(c) \in 0 .. Capacity
            /\ ~r.panic
            /\ r.sock.recv_param.window \in 0 .. Capacity

\* the segments of net without ACK flag that the dispatcher hands to the
\* ESTABLISHED or FIN-WAIT handler when it receives them now
NoAckCases ==
    {c \in {[pkt |-> p, id |-> Lookup(sockets[p.dst_addr], p)] : p \in net} :
        /\ Unlocked(c.pkt.dst_addr)
        /\ c.id # NoSockID
        /\ sockets[c.pkt.dst_addr][c.id].status \in {"Established", "FinWait1", "FinWait2"}
        /\ "ACK" \notin c.pkt.flag}

\* C20: in ESTABLISHED and in FIN-WAIT-1 / FIN-WAIT-2 a segment whose ACK
\* flag is absent is dropped: the socket (send.unacked_seq, send.window,
\* retransmission queue, receive parameters, receive buffer, status) is
\* unchanged, no segment is emitted and no event is published, whatever its
\* acknowledgment-number field contains.
C20_NoAckDropped ==
    \A c \in NoAckCases :
        LET s == sockets[c.pkt.dst_addr][c.id]
        IN  SocketHandler(s, c.id, c.pkt) = Result(s, <<>>, <<>>, FALSE)

\* the status changes a socket may make
StatusEdges ==
    { <<"SynSent", "Established">>, <<"SynSent", "SynRcvd">>,
      <<"SynRcvd", "Established">>,
      <<"Established", "FinWait1">>, <<"Established", "CloseWait">>,
      <<"FinWait1", "FinWait2">>, <<"CloseWait", "LastAck">> }

\* the socket under id on host h is the same socket before and after the step
SameSocket(h, id) ==
    /\ id \in DOMAIN sockets[h]
    /\ id \in DOMAIN sockets'[h]
    /\ sockets'[h][id].uid = sockets[h][id].uid

\* C21: a socket's status changes only along the edges SYN-SENT to
\* ESTABLISHED or SYN-RCVD, SYN-RCVD to ESTABLISHED, ESTABLISHED to
\* FIN-WAIT-1 or CLOSE-WAIT, FIN-WAIT-1 to FIN-WAIT-2, CLOSE-WAIT to
\* LAST-ACK; a LISTEN socket stays in LISTEN until it is removed, a new
\* child is created in SYN-RCVD, and no socket ever enters CLOSED or
\* TIME-WAIT.
C21_StatusEdges ==
    [][\A h \in Hosts :
          /\ \A id \in DOMAIN sockets[h] :
                SameSocket(h, id) =>
                   \/ sockets'[h][id].status = sockets[h][id].status
                   \/ <<sockets[h][id].status, sockets'[h][id].status>> \in StatusEdges
          /\ \A id \in DOMAIN sockets'[h] :
                /\ sockets'[h][id].status \notin {"Closed", "TimeWait"}
                /\ (id \notin DOMAIN sockets[h]
                    /\ sockets'[h][id].listening_socket # NoSockID)
                   => sockets'[h][id].status = "SynRcvd"]_vars

\* a socket of connect went SYN-SENT, SYN-RCVD, ESTABLISHED (its SYN is
\* still unacknowledged) while the listening socket is in LISTEN and its
\* child, created in SYN-RCVD, is ESTABLISHED
C21_Witness ==
    /\ \E x \in Live :
          /\ Sock(x).status = "Established"
          /\ Sock(x).listening_socket = NoSockID
          /\ Sock(x).send_param.unacked_seq = Sock(x).send_param.initial_seq
    /\ \E y \in Live :
          /\ Sock(y).status = "Established"
          /\ Sock(y).listening_socket # NoSockID
          /\ IsLive(<<y[1], Sock(y).listening_socket>>)
          /\ Sock(<<y[1], Sock(y).listening_socket>>).status = "Listen"

\* the socket under id on host h, created by connect, reaches ESTABLISHED
\* in this step
ConnectEstablished(h, id) ==
    /\ SameSocket(h, id)
    /\ sockets[h][id].listening_socket = NoSockID
    /\ sockets[h][id].status \in {"SynSent", "SynRcvd"}
    /\ sockets'[h][id].status = "Established"

\* C22: connect returns a SockID only when that socket is ESTABLISHED, and
\* whenever a socket created by connect reaches ESTABLISHED the blocked
\* connect call is eventually woken and returns, also on the
\* simultaneous-open path SYN-SENT, SYN-RCVD, ESTABLISHED of a socket
\* without listening parent.  In finite-run form: the step that makes such a
\* socket ESTABLISHED publishes CONNECTION-COMPLETED for it.
C22_ConnectWoken ==
    [][\A h \in Hosts : \A id \in DOMAIN sockets[h] :
          ConnectEstablished(h, id) =>
             \E i \in 1 .. Len(pending'[h]) :
                pending'[h][i] = TCPEvent(id, "ConnectionCompleted")]_vars

\* C23: for every socket recv.next never decreases over the lifetime of the
\* connection: no inbound segment handled in SYN-RCVD, ESTABLISHED,
\* FIN-WAIT-1 or FIN-WAIT-2 lowers the acknowledgment point already
\* advertised to the peer.
C23_RecvNextMonotone ==
    [][\A h \in Hosts : \A id \in DOMAIN sockets[h] :
          SameSocket(h, id) =>
             sockets'[h][id].recv_param.next >= sockets[h][id].recv_param.next]_vars

====
